---- MODULE Spec2Model ----
(***************************************************************************)
(* Model of analyze_health_data.py: a batch pipeline that loads            *)
(* health_data.csv with np.genfromtxt, computes three column means and     *)
(* three threshold counts, renders a fixed text report and writes it to    *)
(* output/analysis_report.txt.                                             *)
(*                                                                         *)
(* Text is modelled as a sequence of pieces, each piece a string; a        *)
(* formatted number is the sequence of its characters.  A file is a        *)
(* sequence of lines, each line a sequence of pieces.  An optional value   *)
(* is <<>> (None / absent) or <<x>>.                                       *)
(*                                                                         *)
(* Only the three columns the code reads after the load (heart_rate,       *)
(* blood_pressure_systolic, glucose_level) are carried in a row; a row     *)
(* also records how many comma-separated fields its line has.              *)
(***************************************************************************)
EXTENDS Integers, Sequences, FiniteSets, TLC

VARIABLES
    input,           \* health_data.csv: <<>> (absent) or <<data lines after the header>>
    outdir,          \* whether output/analysis_report.txt can be opened for writing:
                     \* "missing" (no directory output/), "denied" (no permission), "ok"
    outfile,         \* output/analysis_report.txt: <<>> (absent) or <<content>>
    pc,              \* position of main()
    data,            \* main's local data: <<>> or <<[ndim, rows]>>
    stats,           \* main's local stats: <<>> or <<record of three formatted means>>
    abnormal,        \* main's local abnormal: <<>> or <<record of three counts>>
    total_readings,  \* main's local total_readings: <<>> or <<n>>
    report,          \* main's local report: <<>> or <<lines>>
    stdout,          \* what this run printed
    err,             \* the exception that ended this run: "" when none
    trace,           \* the stages this run has completed, in order
    writes,          \* number of f.write calls of this run
    before,          \* outfile as it was when this run started
    first,           \* outfile as the first run left it: <<>> until then, then <<outfile>>
    run              \* which run of the script this is

vars == <<input, outdir, outfile, pc, data, stats, abnormal, total_readings,
          report, stdout, err, trace, writes, before, first, run>>

(***************************************************************************)
(* Bounds and program constants                                            *)
(***************************************************************************)
MaxRows == 4
MaxRuns == 2

NumFields == 8
HighHeartRate == 90
HighSystolic == 130
HighGlucose == 110

None == <<>>
Some(x) == <<x>>
Get(o) == o[1]

(***************************************************************************)
(* Input lines.  A well-formed line has 8 fields; ShortRow is a line with  *)
(* 7 fields.  Every numeric field of a sample line is a decimal integer.   *)
(***************************************************************************)
Row(n, hr, sys, glu) ==
    [nfields |-> n, heart_rate |-> hr, blood_pressure_systolic |-> sys,
     glucose_level |-> glu]

GoodRows ==
    { Row(NumFields, 80, 130, 110),
      Row(NumFields, 100, 131, 111),
      Row(NumFields, 90, 120, 95),
      Row(NumFields, 91, 145, 180) }

ShortRow == Row(NumFields - 1, 72, 118, 99)

SampleRows == GoodRows \cup {ShortRow}

BoundedSeq(S, n) == UNION { [1..k -> S] : k \in 0..n }

InputFiles == {None} \cup { Some(rows) : rows \in BoundedSeq(SampleRows, MaxRows) }

StaleContent == << <<"stale line">> >>

(***************************************************************************)
(* load_data: np.genfromtxt(filename, delimiter=',', dtype=dtype,          *)
(* skip_header=1).  The number of columns is taken from the first data     *)
(* line; a line with another number of fields is invalid and raises        *)
(* ValueError (invalid_raise defaults to True); rows whose tuples do not   *)
(* fit the 8-field dtype raise ValueError when the array is built; an      *)
(* absent file raises FileNotFoundError.  The result is squeezed, so a     *)
(* single data line gives a 0-dimensional array.                           *)
(***************************************************************************)
InvalidLines(rows) ==
    { i \in 1..Len(rows) : rows[i].nfields # rows[1].nfields }

\* variant: only the first data line's field count is checked
LoadErrorFirstLineOnly(file) ==
    IF file = None THEN "FileNotFoundError"
    ELSE IF Get(file) = <<>> THEN ""
    ELSE IF Get(file)[1].nfields # NumFields THEN "ValueError"
    ELSE ""

LoadError(file) ==
    IF file = None THEN "FileNotFoundError"
    ELSE IF Get(file) = <<>> THEN ""
    ELSE IF InvalidLines(Get(file)) # {} THEN "ValueError"
    ELSE IF Get(file)[1].nfields # NumFields THEN "ValueError"
    ELSE ""

StripFields(r) ==
    [heart_rate |-> r.heart_rate,
     blood_pressure_systolic |-> r.blood_pressure_systolic,
     glucose_level |-> r.glucose_level]

SqueezedNdim(rows) == IF Len(rows) = 1 THEN 0 ELSE 1

load_data(file) ==
    [ndim |-> SqueezedNdim(Get(file)),
     rows |-> [i \in 1..Len(Get(file)) |-> StripFields(Get(file)[i])]]

(***************************************************************************)
(* Columns, sums and means.  ndarray.mean() accumulates int32 values in    *)
(* float64: the mean is the float64 nearest to sum/N, and 0/0 = nan for    *)
(* an empty column (numpy warns and returns nan).  A mean is kept as the   *)
(* exact fraction [num, den]; den = 0 stands for nan.                      *)
(***************************************************************************)
Column(d, field) == [i \in 1..Len(d.rows) |-> d.rows[i][field]]

RECURSIVE SumSeq(_)
SumSeq(s) == IF s = <<>> THEN 0 ELSE Head(s) + SumSeq(Tail(s))

Mean(col) == [num |-> SumSeq(col), den |-> Len(col)]

IsNaN(m) == m.den = 0

(***************************************************************************)
(* Decimal text of a natural number, as str() and the format               *)
(* mini-language produce it, and the reading of such text as int() does.   *)
(***************************************************************************)
DigitChar(d) ==
    CASE d = 0 -> "0" [] d = 1 -> "1" [] d = 2 -> "2" [] d = 3 -> "3"
      [] d = 4 -> "4" [] d = 5 -> "5" [] d = 6 -> "6" [] d = 7 -> "7"
      [] d = 8 -> "8" [] d = 9 -> "9"

DigitChars == { DigitChar(d) : d \in 0..9 }

DigitValue(c) == CHOOSE d \in 0..9 : DigitChar(d) = c

RECURSIVE Str(_)
Str(n) == IF n < 10 THEN <<DigitChar(n)>>
          ELSE Str(n \div 10) \o <<DigitChar(n % 10)>>

RECURSIVE ParseInt(_)
ParseInt(cs) ==
    IF Len(cs) = 1 THEN DigitValue(cs[1])
    ELSE 10 * ParseInt(SubSeq(cs, 1, Len(cs) - 1)) + DigitValue(cs[Len(cs)])

(***************************************************************************)
(* f"{x:.1f}" of a float64 x >= 0: the decimal with one fractional digit   *)
(* nearest to the exact value of x, a tie going to the even digit.         *)
(* sum/N lies exactly on a decimal tie k.d5 only if the float64 holds it   *)
(* exactly, which needs the reduced denominator to be a power of two; if   *)
(* the fraction is a tie that float64 cannot hold, the float64 lies on one *)
(* side of it and either neighbour may be printed.  The result is the set  *)
(* of tenths that can be printed.                                          *)
(***************************************************************************)
RECURSIVE Gcd(_, _)
Gcd(a, b) == IF b = 0 THEN a ELSE Gcd(b, a % b)

RECURSIVE IsPowerOfTwo(_)
IsPowerOfTwo(n) == IF n = 1 THEN TRUE
                   ELSE IF n % 2 = 1 THEN FALSE ELSE IsPowerOfTwo(n \div 2)

ExactInFloat(m) == IsPowerOfTwo(m.den \div Gcd(m.num, m.den))

\* variant: the mean is cut after the first decimal instead of rounded
TruncatedTenths(m) == {(10 * m.num) \div m.den}

RoundedTenths(m) ==
    LET q == (10 * m.num) \div m.den
        r == (10 * m.num) % m.den
    IN  IF 2 * r < m.den THEN {q}
        ELSE IF 2 * r > m.den THEN {q + 1}
        ELSE IF ExactInFloat(m) THEN {IF q % 2 = 0 THEN q ELSE q + 1}
        ELSE {q, q + 1}

NaNText == <<"n", "a", "n">>

TenthsText(t) == Str(t \div 10) \o <<".">> \o Str(t % 10)

FormatOneDecimal(m) ==
    IF IsNaN(m) THEN {NaNText} ELSE { TenthsText(t) : t \in RoundedTenths(m) }

(***************************************************************************)
(* calculate_statistics: the three means, each formatted with .1f          *)
(***************************************************************************)
calculate_statistics(d) ==
    { [avg_heart_rate |-> a, avg_systolic_bp |-> b, avg_glucose |-> c] :
        a \in FormatOneDecimal(Mean(Column(d, "heart_rate"))),
        b \in FormatOneDecimal(Mean(Column(d, "blood_pressure_systolic"))),
        c \in FormatOneDecimal(Mean(Column(d, "glucose_level"))) }

(***************************************************************************)
(* find_abnormal_readings: (column > threshold).sum() for three columns    *)
(***************************************************************************)
\* variant: >= in place of >
CountAtLeast(col, threshold) ==
    Cardinality({ i \in 1..Len(col) : col[i] >= threshold })

CountAbove(col, threshold) ==
    Cardinality({ i \in 1..Len(col) : col[i] > threshold })

find_abnormal_readings(d) ==
    [high_heart_rate |-> CountAbove(Column(d, "heart_rate"), HighHeartRate),
     high_blood_pressure |->
         CountAbove(Column(d, "blood_pressure_systolic"), HighSystolic),
     high_glucose |-> CountAbove(Column(d, "glucose_level"), HighGlucose)]

(***************************************************************************)
(* len(data): the length of the first axis; TypeError ("len() of unsized   *)
(* object") for a 0-dimensional array.                                     *)
(***************************************************************************)
LenError(d) == IF d.ndim = 0 THEN "TypeError" ELSE ""

LenOf(d) == Len(d.rows)

(***************************************************************************)
(* generate_report: the f-string template, values substituted with str()   *)
(***************************************************************************)
TotalLabel == "- Total readings: "

generate_report(s, a, n) ==
    << <<"Health Sensor Data Analysis Report">>,
       <<"==================================">>,
       <<"">>,
       <<"Dataset Summary:">>,
       <<TotalLabel>> \o Str(n),
       <<"">>,
       <<"Average Measurements:">>,
       <<"- Heart Rate: ">> \o s.avg_heart_rate \o <<" bpm">>,
       <<"- Systolic Blood Pressure: ">> \o s.avg_systolic_bp \o <<" mmHg">>,
       <<"- Glucose Level: ">> \o s.avg_glucose \o <<" mg/dL">>,
       <<"">>,
       <<"Abnormal Readings:">>,
       <<"- High Heart Rate (>90 bpm): ">> \o Str(a.high_heart_rate)
           \o <<" readings">>,
       <<"- High Systolic Blood Pressure (>130 mmHg): ">>
           \o Str(a.high_blood_pressure) \o <<" readings">>,
       <<"- High Glucose Level (>110 mg/dL): ">> \o Str(a.high_glucose)
           \o <<" readings">>,
       <<"">>,
       <<" ">> >>

(***************************************************************************)
(* save_report: open(filename, 'w') then f.write(report).  open raises     *)
(* FileNotFoundError when the directory is missing and PermissionError     *)
(* when the path may not be written; otherwise it creates or truncates     *)
(* the file.                                                               *)
(***************************************************************************)
OpenError(dir) ==
    IF dir = "missing" THEN "FileNotFoundError"
    ELSE IF dir = "denied" THEN "PermissionError"
    ELSE ""

\* variant: open(filename, 'a')
OpenedForAppend(old) == IF old = None THEN Some(<<>>) ELSE old

OpenedFile(old) == Some(<<>>)

WrittenFile(old, text) == Some(Get(old) \o text)

Confirmation == "analysis report successfully saved to 'output/analysis_report.txt'"

(***************************************************************************)
(* The script.  Each run of main() starts with fresh locals; the input     *)
(* file and the output directory are the same for every run.               *)
(***************************************************************************)
Stages == <<"load", "aggregate", "classify", "count", "format", "write">>

Init ==
    /\ input \in InputFiles
    /\ outdir \in {"missing", "denied", "ok"}
    /\ outfile \in (IF outdir = "missing" THEN {None}
                    ELSE {None, Some(StaleContent)})
    /\ pc = "start"
    /\ data = None
    /\ stats = None
    /\ abnormal = None
    /\ total_readings = None
    /\ report = None
    /\ stdout = <<>>
    /\ err = ""
    /\ trace = <<>>
    /\ writes = 0
    /\ before = outfile
    /\ first = None
    /\ run = 1

Raise(e) ==
    /\ pc' = "failed"
    /\ err' = e

Completed(stage, next) ==
    /\ pc' = next
    /\ trace' = Append(trace, stage)
    /\ err' = err

\* variant: a failed load is reported and the run goes on with no rows
LoadOrEmpty ==
    /\ pc = "start"
    /\ IF LoadError(input) # ""
       THEN /\ data' = Some([ndim |-> 1, rows |-> <<>>])
            /\ pc' = "loaded"
            /\ trace' = Append(trace, "load")
            /\ err' = LoadError(input)
       ELSE /\ data' = Some(load_data(input))
            /\ Completed("load", "loaded")
    /\ UNCHANGED <<input, outdir, outfile, stats, abnormal, total_readings,
                   report, stdout, writes, before, first, run>>

\* data = load_data('health_data.csv')
Load ==
    /\ pc = "start"
    /\ IF LoadError(input) # ""
       THEN /\ Raise(LoadError(input))
            /\ UNCHANGED <<data, trace>>
       ELSE /\ data' = Some(load_data(input))
            /\ Completed("load", "loaded")
    /\ UNCHANGED <<input, outdir, outfile, stats, abnormal, total_readings,
                   report, stdout, writes, before, first, run>>

\* variant: calculate_statistics caps heart_rate in place before averaging
AggregateClipping ==
    /\ pc = "loaded"
    /\ data' = Some([Get(data) EXCEPT !.rows =
                        [i \in 1..Len(@) |->
                            [@[i] EXCEPT !.heart_rate =
                                IF @ > HighHeartRate THEN HighHeartRate ELSE @]]])
    /\ stats' \in { Some(s) : s \in calculate_statistics(Get(data)) }
    /\ Completed("aggregate", "aggregated")
    /\ UNCHANGED <<input, outdir, outfile, abnormal, total_readings,
                   report, stdout, writes, before, first, run>>

\* stats = calculate_statistics(data)
Aggregate ==
    /\ pc = "loaded"
    /\ stats' \in { Some(s) : s \in calculate_statistics(Get(data)) }
    /\ Completed("aggregate", "aggregated")
    /\ UNCHANGED <<input, outdir, outfile, data, abnormal, total_readings,
                   report, stdout, writes, before, first, run>>

\* abnormal = find_abnormal_readings(data)
Classify ==
    /\ pc = "aggregated"
    /\ abnormal' = Some(find_abnormal_readings(Get(data)))
    /\ Completed("classify", "classified")
    /\ UNCHANGED <<input, outdir, outfile, data, stats, total_readings,
                   report, stdout, writes, before, first, run>>

\* total_readings = len(data)
CountRows ==
    /\ pc = "classified"
    /\ IF LenError(Get(data)) # ""
       THEN /\ Raise(LenError(Get(data)))
            /\ UNCHANGED <<total_readings, trace>>
       ELSE /\ total_readings' = Some(LenOf(Get(data)))
            /\ Completed("count", "counted")
    /\ UNCHANGED <<input, outdir, outfile, data, stats, abnormal,
                   report, stdout, writes, before, first, run>>

\* variant: the report starts with a line that differs from run to run
FormatStamped ==
    /\ pc = "counted"
    /\ report' = Some(<< <<"Run ">> \o Str(run) >>
                      \o generate_report(Get(stats), Get(abnormal),
                                         Get(total_readings)))
    /\ Completed("format", "formatted")
    /\ UNCHANGED <<input, outdir, outfile, data, stats, abnormal,
                   total_readings, stdout, writes, before, first, run>>

\* report = generate_report(stats, abnormal, total_readings)
Format ==
    /\ pc = "counted"
    /\ report' = Some(generate_report(Get(stats), Get(abnormal),
                                      Get(total_readings)))
    /\ Completed("format", "formatted")
    /\ UNCHANGED <<input, outdir, outfile, data, stats, abnormal,
                   total_readings, stdout, writes, before, first, run>>

\* save_report: with open(filename, 'w') as f
SaveOpen ==
    /\ pc = "formatted"
    /\ IF OpenError(outdir) # ""
       THEN /\ Raise(OpenError(outdir))
            /\ UNCHANGED outfile
       ELSE /\ outfile' = OpenedFile(outfile)
            /\ pc' = "opened"
            /\ err' = err
    /\ UNCHANGED <<input, outdir, data, stats, abnormal, total_readings,
                   report, stdout, trace, writes, before, first, run>>

\* save_report: f.write(report), and the file is closed on leaving the block
SaveWrite ==
    /\ pc = "opened"
    /\ outfile' = WrittenFile(outfile, Get(report))
    /\ writes' = writes + 1
    /\ Completed("write", "saved")
    /\ UNCHANGED <<input, outdir, data, stats, abnormal, total_readings,
                   report, stdout, before, first, run>>

\* variant: the confirmation is printed before save_report is called
PrintBeforeSave ==
    /\ pc = "formatted"
    /\ stdout' = Append(stdout, Confirmation)
    /\ pc' = "done"
    /\ UNCHANGED <<input, outdir, outfile, data, stats, abnormal,
                   total_readings, report, err, trace, writes, before, first,
                   run>>

\* print("analysis report successfully saved to ...")
PrintConfirmation ==
    /\ pc = "saved"
    /\ stdout' = Append(stdout, Confirmation)
    /\ pc' = "done"
    /\ UNCHANGED <<input, outdir, outfile, data, stats, abnormal,
                   total_readings, report, err, trace, writes, before, first,
                   run>>

Ended == pc \in {"done", "failed"}

\* the script is started again on the same input: if __name__ == "__main__": main()
RunAgain ==
    /\ Ended
    /\ run < MaxRuns
    /\ run' = run + 1
    /\ first' = IF run = 1 THEN Some(outfile) ELSE first
    /\ before' = outfile
    /\ pc' = "start"
    /\ data' = None
    /\ stats' = None
    /\ abnormal' = None
    /\ total_readings' = None
    /\ report' = None
    /\ stdout' = <<>>
    /\ err' = ""
    /\ trace' = <<>>
    /\ writes' = 0
    /\ UNCHANGED <<input, outdir, outfile>>

Next ==
    \/ Load
    \/ Aggregate
    \/ Classify
    \/ CountRows
    \/ Format
    \/ SaveOpen
    \/ SaveWrite
    \/ PrintConfirmation
    \/ RunAgain

Spec == Init /\ [][Next]_vars

(***************************************************************************)
(* Vocabulary of the properties                                            *)
(***************************************************************************)
InputRows == Get(input)

Loads == LoadError(input) = ""

HeaderOnly == input = Some(<<>>)

HasMalformedRow ==
    /\ input # None
    /\ \E i \in 1..Len(InputRows) : InputRows[i].nfields # NumFields

InputColumn(field) == [i \in 1..Len(InputRows) |-> InputRows[i][field]]

Abs(x) == IF x < 0 THEN -x ELSE x

\* cs reads as digits, a point and exactly one digit
OneDecimalText(cs) ==
    /\ Len(cs) >= 3
    /\ cs[Len(cs) - 1] = "."
    /\ \A i \in (1..Len(cs)) \ {Len(cs) - 1} : cs[i] \in DigitChars

\* the number of tenths a one-decimal text denotes
TenthsOf(cs) ==
    10 * ParseInt(SubSeq(cs, 1, Len(cs) - 2)) + DigitValue(cs[Len(cs)])

\* cs is the mean of col to one decimal place: no other one-decimal number
\* is nearer to sum(col) / N
IsRoundedMean(cs, col) ==
    /\ OneDecimalText(cs)
    /\ 2 * Abs(10 * SumSeq(col) - TenthsOf(cs) * Len(col)) <= Len(col)

\* the integer on the "- Total readings:" line of a text
TotalReadingsOf(text) ==
    LET i == CHOOSE k \in 1..Len(text) : Head(text[k]) = TotalLabel
    IN  ParseInt(Tail(text[i]))

HasNaN(text) ==
    \E i \in 1..Len(text) : \E j \in 1..(Len(text[i]) - 2) :
        SubSeq(text[i], j, j + 2) = NaNText

IsPrefix(s, t) == Len(s) <= Len(t) /\ s = SubSeq(t, 1, Len(s))

\* C1: find_abnormal_readings counts a row only when its value is strictly
\* above the threshold (heart_rate > 90, systolic > 130, glucose > 110): each
\* count is the number of rows minus the rows at or below the threshold, and
\* a single row with systolic = 130 gives high_blood_pressure = 0.
C1_StrictThresholds ==
    abnormal # None =>
        LET a == Get(abnormal)
            n == Len(InputRows)
            AtOrBelow(field, limit) ==
                Cardinality({ i \in 1..n : InputRows[i][field] <= limit })
        IN  /\ a.high_heart_rate = n - AtOrBelow("heart_rate", 90)
            /\ a.high_blood_pressure = n - AtOrBelow("blood_pressure_systolic", 130)
            /\ a.high_glucose = n - AtOrBelow("glucose_level", 110)
            /\ (n = 1 /\ InputRows[1].blood_pressure_systolic = 130)
                   => a.high_blood_pressure = 0

C1_Witness ==
    /\ abnormal # None
    /\ Len(InputRows) = 1
    /\ InputRows[1].blood_pressure_systolic = 130
    /\ Get(abnormal).high_blood_pressure = 0

\* C2: for a non-empty dataset each value returned by calculate_statistics is
\* the mean of its column (sum / N) rounded to one decimal place, written
\* with exactly one fractional digit; heart_rate = [80, 100] gives "90.0".
C2_MeansRoundedToOneDecimal ==
    (stats # None /\ InputRows # <<>>) =>
        /\ IsRoundedMean(Get(stats).avg_heart_rate, InputColumn("heart_rate"))
        /\ IsRoundedMean(Get(stats).avg_systolic_bp,
                         InputColumn("blood_pressure_systolic"))
        /\ IsRoundedMean(Get(stats).avg_glucose, InputColumn("glucose_level"))
        /\ InputColumn("heart_rate") = <<80, 100>>
               => Get(stats).avg_heart_rate = <<"9", "0", ".", "0">>

C2_Witness ==
    /\ stats # None
    /\ InputColumn("heart_rate") = <<80, 100>>
    /\ Get(stats).avg_heart_rate = <<"9", "0", ".", "0">>

C2_WitnessTie ==
    /\ stats # None
    /\ InputColumn("heart_rate") = <<90, 90, 90, 91>>
    /\ Get(stats).avg_heart_rate = <<"9", "0", ".", "2">>

\* C3: for every input file that loads, whatever its number of data rows (one
\* row included), the run completes and the integer on the report's
\* "- Total readings:" line is the number of data rows.  (The output path is
\* taken to be writable, so that only the row count decides.)
C3_TotalReadingsIsRowCount ==
    (Loads /\ outdir = "ok" /\ Ended) =>
        /\ pc = "done"
        /\ TotalReadingsOf(Get(outfile)) = Len(InputRows)

\* C4: a file with a header and no data rows ends in EmptyDatasetError at or
\* before aggregation; no report with a not-a-number mean is produced or
\* written.
C4_EmptyDatasetFails ==
    HeaderOnly =>
        /\ report # None => ~HasNaN(Get(report))
        /\ outfile # None => ~HasNaN(Get(outfile))
        /\ Ended => (pc = "failed" /\ err = "EmptyDatasetError")

C7_OneTruncatingWrite ==
    pc \in {"saved", "done"} => (writes = 1 /\ outfile = report)

C7_Witness ==
    /\ pc = "done"
    /\ before = Some(StaleContent)
    /\ writes = 1
    /\ outfile = report

\* C8: running main twice on an unchanged input file leaves the output file
\* after the second run identical to what it was after the first run.
C8_Idempotent ==
    (run >= 2 /\ Ended) => first = Some(outfile)

C8_Witness ==
    /\ run = 2
    /\ pc = "done"
    /\ writes = 1
    /\ first = Some(outfile)
    /\ outfile = report

\* C9: the dataset stays as load_data produced it (same rows, same order, same
\* values) through calculate_statistics, find_abnormal_readings and
\* generate_report, the input file is never changed, and the only effects of a
\* run besides the confirmation message are those of save_report on the
\* output file.
C9_DatasetUnchanged ==
    /\ [](data # None => Get(data) = load_data(input))
    /\ [][/\ input' = input
          /\ outdir' = outdir
          /\ (pc # "start" /\ pc' # "start") => data' = data
          /\ outfile' # outfile => pc \in {"formatted", "opened"}
          /\ stdout' # stdout => (pc = "saved" \/ pc' = "start")]_vars

C9_Witness ==
    /\ pc = "done"
    /\ Len(Get(data).rows) >= 2
    /\ Get(data).rows[1].heart_rate > Get(data).rows[2].heart_rate
    /\ Get(data) = load_data(input)

\* C10: the stages run in the order load, aggregate, classify, format, write;
\* the confirmation is printed only after the report has been written, and a
\* run in which a stage fails never prints it.
C10_StageOrder ==
    /\ IsPrefix(trace, Stages)
    /\ stdout # <<>> =>
           /\ stdout = <<Confirmation>>
           /\ trace = Stages
           /\ outfile = report
           /\ pc = "done"
    /\ pc = "done" => stdout = <<Confirmation>>
    /\ pc = "failed" => stdout = <<>>

C10_Witness ==
    /\ pc = "done"
    /\ stdout = <<Confirmation>>
    /\ trace = Stages

====
